---- MODULE Spec2Model ----
(***************************************************************************)
(* Model of simple_summarizer.py: the frequency-based extractive           *)
(* summarizer (preprocess_text, calculate_word_frequencies,                *)
(* score_sentences, summarize_text) and its command-line driver main.      *)
(*                                                                         *)
(* A text is a sequence of one-character strings.  A word token is a       *)
(* string (the concatenation of its lower-cased characters), so that the   *)
(* stop-word set reads as in the source.  Sentence indices are 0-based as  *)
(* in the source; sentence i is sentences[i + 1] in the model.             *)
(* A ratio is a rational [num, den] with den > 0; int(n * ratio) is the    *)
(* floor of the exact product.                                             *)
(* The script is modelled as it runs on Python 3.12 or later: line 184     *)
(* holds a backslash inside an f-string expression, which earlier          *)
(* versions reject when they compile the file.                             *)
(***************************************************************************)
EXTENDS Integers, Sequences, FiniteSets, TLC

\* ------------------------------------------------------------------ bounds

\* Longest text enumerated character by character (longer texts are the
\* named scenario texts below).
MaxLen == 5

\* ------------------------------------------------------- character classes

LowerCase ==
    << "a", "b", "c", "d", "e", "f", "g", "h", "i", "j", "k", "l", "m",
       "n", "o", "p", "q", "r", "s", "t", "u", "v", "w", "x", "y", "z" >>

UpperCase ==
    << "A", "B", "C", "D", "E", "F", "G", "H", "I", "J", "K", "L", "M",
       "N", "O", "P", "Q", "R", "S", "T", "U", "V", "W", "X", "Y", "Z" >>

Digits == {"0", "1", "2", "3", "4", "5", "6", "7", "8", "9"}

\* \w of the regular expressions: letters, digits and the underscore.
WordChars ==
    {LowerCase[i] : i \in 1..26} \cup {UpperCase[i] : i \in 1..26}
        \cup Digits \cup {"_"}

\* \s of the regular expressions, and what str.strip() removes.
Whitespace == {" ", "\t", "\n", "\r", "\f"}

\* [.!?] of the sentence splitter.
Terminals == {".", "!", "?"}

\* The lower-case letter of each upper-case letter.
UpperToLower ==
    [c \in {UpperCase[i] : i \in 1..26} |->
        LowerCase[CHOOSE i \in 1..26 : UpperCase[i] = c]]

\* str.lower() on one character.
LowerChar(c) == IF c \in DOMAIN UpperToLower THEN UpperToLower[c] ELSE c

\* str.lower()
Lower(s) == [i \in 1..Len(s) |-> LowerChar(s[i])]

\* str.strip()
Strip(s) ==
    LET keep == {i \in 1..Len(s) : s[i] \notin Whitespace}
    IN  IF keep = {} THEN << >>
        ELSE SubSeq(s, CHOOSE i \in keep : \A j \in keep : i <= j,
                       CHOOSE i \in keep : \A j \in keep : j <= i)

\* The end of the whitespace run that starts at position i.
RECURSIVE RunEnd(_, _)
RunEnd(s, i) ==
    IF i < Len(s) /\ s[i + 1] \in Whitespace THEN RunEnd(s, i + 1) ELSE i

\* re.split(r'(?<=[.!?])\s+', s): a separator is a maximal whitespace run
\* that directly follows '.', '!' or '?'.  `start` is where the current piece
\* begins, `i` the scan position.
RECURSIVE SplitFrom(_, _, _)
SplitFrom(s, start, i) ==
    IF i > Len(s) THEN << SubSeq(s, start, Len(s)) >>
    ELSE IF s[i] \in Whitespace /\ i > 1 /\ s[i - 1] \in Terminals
      THEN << SubSeq(s, start, i - 1) >>
               \o SplitFrom(s, RunEnd(s, i) + 1, RunEnd(s, i) + 1)
      ELSE SplitFrom(s, start, i + 1)

SplitSentences(s) == SplitFrom(s, 1, 1)

\* The end of the run of word characters that starts at position i.
RECURSIVE WordEnd(_, _)
WordEnd(s, i) ==
    IF i < Len(s) /\ s[i + 1] \in WordChars THEN WordEnd(s, i + 1) ELSE i

\* The characters s[i..j] as one string.
RECURSIVE Token(_, _, _)
Token(s, i, j) == IF i > j THEN "" ELSE s[i] \o Token(s, i + 1, j)

\* re.findall(r'\b\w+\b', s): the maximal runs of word characters, in order.
RECURSIVE FindWordsFrom(_, _)
FindWordsFrom(s, i) ==
    IF i > Len(s) THEN << >>
    ELSE IF s[i] \in WordChars
      THEN << Token(s, i, WordEnd(s, i)) >> \o FindWordsFrom(s, WordEnd(s, i) + 1)
      ELSE FindWordsFrom(s, i + 1)

FindWords(s) == FindWordsFrom(s, 1)

\* ------------------------------------------------------------ the pipeline

STOP_WORDS ==
    { "a", "an", "and", "the", "is", "are", "was", "were", "he", "she", "it",
      "i", "you", "we", "they", "him", "her", "us", "them", "my", "your",
      "our", "their", "this", "that", "these", "those", "of", "in", "on",
      "at", "to", "for", "with", "as", "by", "but", "so", "if", "or", "up",
      "down", "out", "into", "from", "about", "just", "can", "will", "would",
      "should", "has", "have", "had", "do", "does", "did", "be", "being",
      "been" }

\* preprocess_text: (sentences, words)
preprocess_text(text) ==
    [ sentences |-> SplitSentences(Strip(text)),
      words     |-> FindWords(Lower(text)) ]

\* The loop of calculate_word_frequencies, from word k on, with the
\* defaultdict built so far.
RECURSIVE CountFrom(_, _, _)
CountFrom(words, k, freq) ==
    IF k > Len(words) THEN freq
    ELSE LET word == words[k]
         IN  IF word \notin STOP_WORDS
               THEN CountFrom(words, k + 1,
                      [w \in DOMAIN freq \cup {word} |->
                         IF w = word
                           THEN (IF w \in DOMAIN freq THEN freq[w] ELSE 0) + 1
                           ELSE freq[w]])
               ELSE CountFrom(words, k + 1, freq)

\* The empty dictionary.
EmptyDict == [w \in {} |-> 0]

\* Variant: stop words are counted like any other word.
CountEveryWord(words) ==
    [w \in {words[k] : k \in 1..Len(words)} |->
        Cardinality({k \in 1..Len(words) : words[k] = w})]

\* calculate_word_frequencies: the dictionary word -> count of the non-stop
\* words.
calculate_word_frequencies(words) == CountFrom(words, 1, EmptyDict)

\* A dictionary that keeps insertion order is a sequence of <<key, value>>.
Keys(items) == {items[k][1] : k \in 1..Len(items)}

\* d[key] += amount on a defaultdict(int): a new key is inserted at the end.
AddTo(items, key, amount) ==
    IF key \in Keys(items)
      THEN [k \in 1..Len(items) |->
              IF items[k][1] = key
                THEN << key, items[k][2] + amount >> ELSE items[k]]
      ELSE Append(items, << key, amount >>)

\* Variant: the membership test is dropped, every token is looked up.
InDictAlways(word, d) == TRUE

\* `word in word_frequencies`
InDict(word, d) == word \in DOMAIN d

\* d[key] read on a defaultdict(int): the value, and the dictionary after the
\* read (a missing key is inserted with the value 0).
DefaultGet(d, key) ==
    IF key \in DOMAIN d
      THEN [value |-> d[key], dict |-> d]
      ELSE [value |-> 0,
            dict  |-> [w \in DOMAIN d \cup {key} |-> IF w = key THEN 0 ELSE d[w]]]

\* The inner loop of score_sentences over the words of sentence i.  The state
\* st holds the scores built so far and the frequency dictionary as the
\* reads leave it.
RECURSIVE ScoreWords(_, _, _, _)
ScoreWords(sentence_words, k, i, st) ==
    IF k > Len(sentence_words) THEN st
    ELSE ScoreWords(sentence_words, k + 1, i,
           IF InDict(sentence_words[k], st.freq)
             THEN LET got == DefaultGet(st.freq, sentence_words[k])
                  IN  [scores |-> AddTo(st.scores, i, got.value),
                       freq   |-> got.dict]
             ELSE st)

\* The outer loop of score_sentences, from sentence index i (0-based) on.
RECURSIVE ScoreFrom(_, _, _)
ScoreFrom(sentences, i, st) ==
    IF i >= Len(sentences) THEN st
    ELSE ScoreFrom(sentences, i + 1,
           ScoreWords(FindWords(Lower(sentences[i + 1])), 1, i, st))

\* score_sentences with its effect on the dictionary it is handed.
ScoreState(sentences, word_frequencies) ==
    ScoreFrom(sentences, 0, [scores |-> << >>, freq |-> word_frequencies])

\* score_sentences: the returned sentence_scores, as (index, score) items in
\* insertion order.
score_sentences(sentences, word_frequencies) ==
    ScoreState(sentences, word_frequencies).scores

\* ---------------------------------------------------------- heapq.nlargest

\* key=lambda item: item[1] on an item (index, score).
ItemKey(item) == item[2]

\* Variant: among items of equal key the last one wins.
LastMax(items) ==
    items[CHOOSE m \in 1..Len(items) :
            /\ \A j \in 1..Len(items) : ItemKey(items[j]) <= ItemKey(items[m])
            /\ \A j \in (m + 1)..Len(items) : ItemKey(items[j]) < ItemKey(items[m])]

\* max(it, key=key): the first item whose key no other item exceeds.
FirstMax(items) ==
    items[CHOOSE m \in 1..Len(items) :
            /\ \A j \in 1..Len(items) : ItemKey(items[j]) <= ItemKey(items[m])
            /\ \A j \in 1..(m - 1) : ItemKey(items[j]) < ItemKey(items[m])]

\* One insertion of the stable descending sort: the item goes after every
\* item whose key is at least its own.
InsertDesc(sorted, item) ==
    LET before == {k \in 1..Len(sorted) : ItemKey(sorted[k]) >= ItemKey(item)}
        b == Cardinality(before)
    IN  SubSeq(sorted, 1, b) \o << item >> \o SubSeq(sorted, b + 1, Len(sorted))

\* sorted(iterable, key=key, reverse=True): descending by key, items of equal
\* key in their original order.
RECURSIVE SortedReverseFrom(_, _, _)
SortedReverseFrom(items, k, sorted) ==
    IF k > Len(items) THEN sorted
    ELSE SortedReverseFrom(items, k + 1, InsertDesc(sorted, items[k]))

SortedReverse(items) == SortedReverseFrom(items, 1, << >>)

\* Comparison of the heap entries (key, order, elem): order is unique, so
\* elem is never compared.
EntryLess(a, b) == a[1] < b[1] \/ (a[1] = b[1] /\ a[2] < b[2])

\* result[0] of the min-heap.
HeapTop(heap) == CHOOSE e \in heap : \A f \in heap : f = e \/ EntryLess(e, f)

\* The main loop of nlargest over the items after the first n: an item
\* replaces the heap's smallest entry only when its key is strictly larger.
RECURSIVE HeapLoop(_, _, _, _)
HeapLoop(items, k, heap, order) ==
    IF k > Len(items) THEN heap
    ELSE IF HeapTop(heap)[1] < ItemKey(items[k])
      THEN HeapLoop(items, k + 1,
             (heap \ {HeapTop(heap)}) \cup {<< ItemKey(items[k]), order, items[k] >>},
             order - 1)
      ELSE HeapLoop(items, k + 1, heap, order)

\* result.sort(reverse=True) and the projection to elem.
RECURSIVE HeapDescending(_)
HeapDescending(heap) ==
    IF heap = {} THEN << >>
    ELSE LET top == CHOOSE e \in heap : \A f \in heap : f = e \/ EntryLess(f, e)
         IN  << top[3] >> \o HeapDescending(heap \ {top})

\* xs[:n]
Take(xs, n) ==
    SubSeq(xs, 1, IF n < 0 THEN 0 ELSE IF n > Len(xs) THEN Len(xs) ELSE n)

\* heapq.nlargest(n, iterable, key) as CPython computes it: max() for n = 1,
\* a stable reverse sort when n covers the iterable, a bounded heap of
\* (key, order, elem) otherwise.
nlargest(n, items) ==
    IF n = 1
      THEN (IF Len(items) = 0 THEN << >> ELSE << FirstMax(items) >>)
    ELSE IF n >= Len(items)
      THEN Take(SortedReverse(items), n)
    ELSE IF n <= 0 THEN << >>
    ELSE HeapDescending(
           HeapLoop(items, n + 1,
                    {<< ItemKey(items[k]), 0 - (k - 1), items[k] >> : k \in 1..n},
                    0 - n))

\* ---------------------------------------------------------- summarize_text

Max(a, b) == IF a >= b THEN a ELSE b

\* Variant: the max(1, ...) floor is missing.
CountWithoutFloorOfOne(num_sentences, ratio) ==
    (num_sentences * ratio.num) \div ratio.den

\* Variant: the ratio is taken as the share to drop.
CountOfDropped(num_sentences, ratio) ==
    Max(1, num_sentences - (num_sentences * ratio.num) \div ratio.den)

\* max(1, int(num_sentences * ratio))
SummarySentencesCount(num_sentences, ratio) ==
    Max(1, (num_sentences * ratio.num) \div ratio.den)

\* Variant: the indices are left in the order nlargest returned them.
Unsorted(xs) == xs

\* sorted(...) of a list of integers: ascending insertion sort.
RECURSIVE SortedFrom(_, _, _)
SortedFrom(xs, k, sorted) ==
    IF k > Len(xs) THEN sorted
    ELSE LET b == Cardinality({j \in 1..Len(sorted) : sorted[j] <= xs[k]})
         IN  SortedFrom(xs, k + 1,
               SubSeq(sorted, 1, b) \o << xs[k] >> \o SubSeq(sorted, b + 1, Len(sorted)))

Sorted(xs) == SortedFrom(xs, 1, << >>)

\* sorted([index for index, score in top_sentence_indices_with_scores])
TopIndices(count, sentence_scores) ==
    LET top == nlargest(count, sentence_scores)
    IN  Sorted([k \in 1..Len(top) |-> top[k][1]])

\* Variant: ''.join(parts)
RECURSIVE JoinNoSpace(_)
JoinNoSpace(parts) ==
    IF Len(parts) = 0 THEN << >> ELSE parts[1] \o JoinNoSpace(Tail(parts))

\* ' '.join(parts)
RECURSIVE Join(_)
Join(parts) ==
    IF Len(parts) = 0 THEN << >>
    ELSE IF Len(parts) = 1 THEN parts[1]
    ELSE parts[1] \o << " " >> \o Join(Tail(parts))

\* ' '.join([sentences[i] for i in top_indices])
BuildSummary(sentences, top_indices) ==
    Join([k \in 1..Len(top_indices) |-> sentences[top_indices[k] + 1]])

EmptyInputMessage ==
    << "E", "r", "r", "o", "r", ":", " ", "I", "n", "p", "u", "t", " ", "t", "e", "x",
       "t", " ", "i", "s", " ", "e", "m", "p", "t", "y", "." >>

NoScorableContentMessage ==
    << "E", "r", "r", "o", "r", ":", " ", "C", "o", "u", "l", "d", " ", "n", "o", "t",
       " ", "c", "a", "l", "c", "u", "l", "a", "t", "e", " ", "w", "o", "r", "d", " ",
       "f", "r", "e", "q", "u", "e", "n", "c", "i", "e", "s", " ", "(", "t", "e", "x",
       "t", " ", "m", "a", "y", " ", "c", "o", "n", "t", "a", "i", "n", " ", "o", "n",
       "l", "y", " ", "s", "t", "o", "p", " ", "w", "o", "r", "d", "s", " ", "o", "r",
       " ", "b", "e", " ", "t", "o", "o", " ", "s", "h", "o", "r", "t", ")", "." >>

\* Steps 1 to 5 of summarize_text as one function: the sorted indices of the
\* selected sentences, for a text that passes the two guards.
SelectedIndices(text, ratio) ==
    LET pre == preprocess_text(text)
        word_frequencies == calculate_word_frequencies(pre.words)
        sentence_scores == score_sentences(pre.sentences, word_frequencies)
        count == SummarySentencesCount(Len(pre.sentences), ratio)
    IN  TopIndices(count, sentence_scores)

\* summarize_text as one function: the composition of the steps the actions
\* below take one at a time.
summarize_text(text, ratio) ==
    IF Len(text) = 0 THEN EmptyInputMessage
    ELSE IF DOMAIN calculate_word_frequencies(preprocess_text(text).words) = {}
      THEN NoScorableContentMessage
    ELSE BuildSummary(preprocess_text(text).sentences,
                      SelectedIndices(text, ratio))

\* -------------------------------------------------------------------- main

\* float(sys.argv[2]): ValueError (ok = FALSE), nan, or the number num/den.
ParseFloat(arg) ==
    CASE arg = "0"    -> [ok |-> TRUE, nan |-> FALSE, num |-> 0, den |-> 1]
      [] arg = "-0.5" -> [ok |-> TRUE, nan |-> FALSE, num |-> 0 - 1, den |-> 2]
      [] arg = "1.5"  -> [ok |-> TRUE, nan |-> FALSE, num |-> 3, den |-> 2]
      [] arg = "nan"  -> [ok |-> TRUE, nan |-> TRUE, num |-> 0, den |-> 1]
      [] arg = "0.34" -> [ok |-> TRUE, nan |-> FALSE, num |-> 17, den |-> 50]
      [] arg = "0.67" -> [ok |-> TRUE, nan |-> FALSE, num |-> 67, den |-> 100]
      [] arg = "1.0"  -> [ok |-> TRUE, nan |-> FALSE, num |-> 1, den |-> 1]
      [] OTHER        -> [ok |-> FALSE, nan |-> FALSE, num |-> 0, den |-> 1]

\* The ratio arguments tried on the command line.
RatioArgs == {"abc", "", "0", "-0.5", "1.5", "nan", "0.34", "0.67", "1.0"}

\* ratio = 0.2
DefaultRatio == [nan |-> FALSE, num |-> 1, den |-> 5]

\* Variant: the upper bound is not checked.
RatioPositive(r) == ~r.nan /\ 0 < r.num

\* 0.0 < ratio <= 1.0
RatioInRange(r) == ~r.nan /\ 0 < r.num /\ r.num <= r.den

\* sys.argv for the runs explored: zero to three arguments after the script.
ArgvSet ==
    { << "simple_summarizer.py" >>,
      << "simple_summarizer.py", "in.txt" >>,
      << "simple_summarizer.py", "in.txt", "0.5", "extra" >> }
      \cup {<< "simple_summarizer.py", "in.txt", r >> : r \in RatioArgs}

\* The characters of the enumerated file contents: a stop word letter, a
\* letter in both cases, a sentence terminal and a blank.
Alphabet == {"a", "x", "X", ".", " "}

CatsAndDogsText ==
    << "T", "h", "e", " ", "c", "a", "t", " ", "s", "a", "t", ".", " ", "D", "o", "g",
       "s", " ", "b", "a", "r", "k", " ", "l", "o", "u", "d", "l", "y", ".", " ", "C",
       "a", "t", "s", " ", "a", "n", "d", " ", "d", "o", "g", "s", " ", "a", "r", "e",
       " ", "p", "e", "t", "s", "." >>

AllStopWordsText ==
    << "T", "h", "e", ".", " ", "A", "n", ".", " ", "I", "s", "." >>

\* "Ab cd. Ab! Cd? Ef ab cd. It is.": five sentences, four of them scored
\* (6, 3, 3, 7), the last one all stop words.
TieSplitText ==
    << "A", "b", " ", "c", "d", ".", " ", "A", "b", "!", " ", "C", "d", "?", " ", "E",
       "f", " ", "a", "b", " ", "c", "d", ".", " ", "I", "t", " ", "i", "s", "." >>

\* "Error x. a.": a text whose summary contains the word Error.
ErrorWordText ==
    << "E", "r", "r", "o", "r", " ", "x", ".", " ", "a", "." >>

\* "\t\n": whitespace only.
BlankText == << "\t", "\n" >>

\* A file may hold anything, the text of an error message included.
ScenarioTexts ==
    {CatsAndDogsText, AllStopWordsText, TieSplitText, ErrorWordText, BlankText,
     EmptyInputMessage}

\* The contents f.read() may return.
Texts == UNION {[1..n -> Alphabet] : n \in 0..MaxLen} \cup ScenarioTexts

\* `sub in s` on strings
Contains(s, sub) ==
    \E i \in 1..(Len(s) - Len(sub) + 1) : SubSeq(s, i, i + Len(sub) - 1) = sub

ErrorWord == << "E", "r", "r", "o", "r" >>

VARIABLES
    pc,                       \* position in main / summarize_text
    argv,                     \* sys.argv
    ratio,                    \* main's ratio, passed to summarize_text
    text,                     \* the file's contents
    sentences,                \* summarize_text's locals ...
    words,
    word_frequencies,
    sentence_scores,
    summary_sentences_count,
    top_indices,
    summary,                  \* summarize_text's return value
    stdout,                   \* the lines printed, as <<tag, payload>>
    exit_status,              \* -1 while running
    open_calls,               \* number of open() calls
    summarize_calls           \* number of summarize_text() calls

vars == << pc, argv, ratio, text, sentences, words, word_frequencies,
           sentence_scores, summary_sentences_count, top_indices, summary,
           stdout, exit_status, open_calls, summarize_calls >>

locals == << sentences, words, word_frequencies, sentence_scores,
             summary_sentences_count, top_indices, summary >>

Init ==
    /\ pc = "main"
    /\ argv \in ArgvSet
    /\ ratio = DefaultRatio
    /\ text = << >>
    /\ sentences = << >>
    /\ words = << >>
    /\ word_frequencies = EmptyDict
    /\ sentence_scores = << >>
    /\ summary_sentences_count = 0
    /\ top_indices = << >>
    /\ summary = << >>
    /\ stdout = << >>
    /\ exit_status = 0 - 1
    /\ open_calls = 0
    /\ summarize_calls = 0

\* print(line); sys.exit(1)
Fail(tag) ==
    /\ stdout' = Append(stdout, << tag, 0 >>)
    /\ exit_status' = 1
    /\ pc' = "exit"

\* lines 149-151: wrong argument count
UsageError ==
    /\ pc = "main"
    /\ Len(argv) < 2 \/ Len(argv) > 3
    /\ Fail("Usage")
    /\ UNCHANGED << argv, ratio, text, locals, open_calls, summarize_calls >>

\* lines 153-156: filepath = sys.argv[1]; ratio = 0.2
AcceptArgs ==
    /\ pc = "main"
    /\ ~(Len(argv) < 2 \/ Len(argv) > 3)
    /\ ratio' = DefaultRatio
    /\ pc' = IF Len(argv) = 3 THEN "parse_ratio" ELSE "read_file"
    /\ UNCHANGED << argv, text, locals, stdout, exit_status, open_calls,
                    summarize_calls >>

\* lines 158, 162-164: float() raises ValueError
RatioNotANumber ==
    /\ pc = "parse_ratio"
    /\ ~ParseFloat(argv[3]).ok
    /\ Fail("RatioNotANumber")
    /\ UNCHANGED << argv, ratio, text, locals, open_calls, summarize_calls >>

\* lines 158-161: the ratio is assigned, then found out of range
RatioOutOfRange ==
    /\ pc = "parse_ratio"
    /\ ParseFloat(argv[3]).ok
    /\ ratio' = [nan |-> ParseFloat(argv[3]).nan, num |-> ParseFloat(argv[3]).num,
                 den |-> ParseFloat(argv[3]).den]
    /\ ~RatioInRange(ratio')
    /\ Fail("RatioOutOfRange")
    /\ UNCHANGED << argv, text, locals, open_calls, summarize_calls >>

\* lines 158-159: the ratio is assigned and in range
RatioAccepted ==
    /\ pc = "parse_ratio"
    /\ ParseFloat(argv[3]).ok
    /\ ratio' = [nan |-> ParseFloat(argv[3]).nan, num |-> ParseFloat(argv[3]).num,
                 den |-> ParseFloat(argv[3]).den]
    /\ RatioInRange(ratio')
    /\ pc' = "read_file"
    /\ UNCHANGED << argv, text, locals, stdout, exit_status, open_calls,
                    summarize_calls >>

\* lines 166-171: open() raises FileNotFoundError
FileNotFound ==
    /\ pc = "read_file"
    /\ open_calls' = open_calls + 1
    /\ Fail("FileNotFound")
    /\ UNCHANGED << argv, ratio, text, locals, summarize_calls >>

\* lines 166-168, 172-174: open() or f.read() raises any other exception
FileReadError ==
    /\ pc = "read_file"
    /\ open_calls' = open_calls + 1
    /\ Fail("FileReadError")
    /\ UNCHANGED << argv, ratio, text, locals, summarize_calls >>

\* lines 166-168: text = f.read()
FileRead ==
    /\ pc = "read_file"
    /\ open_calls' = open_calls + 1
    /\ \E t \in Texts : text' = t
    /\ pc' = "call"
    /\ UNCHANGED << argv, ratio, locals, stdout, exit_status, summarize_calls >>

\* line 177: summarize_text(text, ratio) is entered
CallSummarize ==
    /\ pc = "call"
    /\ summarize_calls' = summarize_calls + 1
    /\ pc' = "step1"
    /\ UNCHANGED << argv, ratio, text, locals, stdout, exit_status, open_calls >>

\* lines 108-109: if not text: return the EmptyInput message
EmptyInput ==
    /\ pc = "step1"
    /\ Len(text) = 0
    /\ summary' = EmptyInputMessage
    /\ pc' = "report"
    /\ UNCHANGED << argv, ratio, text, sentences, words, word_frequencies,
                    sentence_scores, summary_sentences_count, top_indices,
                    stdout, exit_status, open_calls, summarize_calls >>

\* line 112: sentences, words = preprocess_text(text)
Step1Preprocess ==
    /\ pc = "step1"
    /\ Len(text) # 0
    /\ sentences' = preprocess_text(text).sentences
    /\ words' = preprocess_text(text).words
    /\ pc' = "step2"
    /\ UNCHANGED << argv, ratio, text, word_frequencies, sentence_scores,
                    summary_sentences_count, top_indices, summary, stdout,
                    exit_status, open_calls, summarize_calls >>

\* line 115: word_frequencies = calculate_word_frequencies(words)
Step2Frequencies ==
    /\ pc = "step2"
    /\ word_frequencies' = calculate_word_frequencies(words)
    /\ pc' = "step3"
    /\ UNCHANGED << argv, ratio, text, sentences, words, sentence_scores,
                    summary_sentences_count, top_indices, summary, stdout,
                    exit_status, open_calls, summarize_calls >>

\* lines 118-119: if not word_frequencies: return the NoScorableContent message
NoScorableContent ==
    /\ pc = "step3"
    /\ DOMAIN word_frequencies = {}
    /\ summary' = NoScorableContentMessage
    /\ pc' = "report"
    /\ UNCHANGED << argv, ratio, text, sentences, words, word_frequencies,
                    sentence_scores, summary_sentences_count, top_indices,
                    stdout, exit_status, open_calls, summarize_calls >>

\* line 122: sentence_scores = score_sentences(sentences, word_frequencies)
Step3Score ==
    /\ pc = "step3"
    /\ DOMAIN word_frequencies # {}
    /\ sentence_scores' = score_sentences(sentences, word_frequencies)
    /\ word_frequencies' = ScoreState(sentences, word_frequencies).freq
    /\ pc' = "step4"
    /\ UNCHANGED << argv, ratio, text, sentences, words,
                    summary_sentences_count, top_indices, summary, stdout,
                    exit_status, open_calls, summarize_calls >>

\* lines 125-126: summary_sentences_count = max(1, int(num_sentences * ratio))
Step4Count ==
    /\ pc = "step4"
    /\ summary_sentences_count' = SummarySentencesCount(Len(sentences), ratio)
    /\ pc' = "step5"
    /\ UNCHANGED << argv, ratio, text, sentences, words, word_frequencies,
                    sentence_scores, top_indices, summary, stdout,
                    exit_status, open_calls, summarize_calls >>

\* lines 131-139: top_indices = sorted(indices of nlargest(...))
Step5Select ==
    /\ pc = "step5"
    /\ top_indices' = TopIndices(summary_sentences_count, sentence_scores)
    /\ pc' = "step6"
    /\ UNCHANGED << argv, ratio, text, sentences, words, word_frequencies,
                    sentence_scores, summary_sentences_count, summary, stdout,
                    exit_status, open_calls, summarize_calls >>

\* lines 142-145: summary = ' '.join(...); return summary
Step6Build ==
    /\ pc = "step6"
    /\ summary' = BuildSummary(sentences, top_indices)
    /\ pc' = "report"
    /\ UNCHANGED << argv, ratio, text, sentences, words, word_frequencies,
                    sentence_scores, summary_sentences_count, top_indices,
                    stdout, exit_status, open_calls, summarize_calls >>

\* Variant: the count is computed whatever the summary holds.
SummaryCountAlways(s) ==
    << "SummarySentenceCount", Len(SplitSentences(Strip(s))) >>

\* The "Summary Sentence Count" of line 184: a number, or N/A when the summary
\* is empty or contains "Error".
SummaryCountLine(s) ==
    IF Len(s) # 0 /\ ~Contains(s, ErrorWord)
      THEN << "SummarySentenceCount", Len(SplitSentences(Strip(s))) >>
      ELSE << "SummarySentenceCountNA", 0 >>

\* lines 178-188: the report; main returns and the process exits with 0
Report ==
    /\ pc = "report"
    /\ stdout' = stdout \o
         << << "Rule", 0 >>,
            << "ReportTitle", ratio >>,
            << "Rule", 0 >>,
            << "OriginalSentenceCount", Len(SplitSentences(Strip(text))) >>,
            SummaryCountLine(summary),
            << "Dashes", 0 >>,
            << "GeneratedSummaryHeader", 0 >>,
            << "Summary", summary >>,
            << "Rule", 0 >> >>
    /\ exit_status' = 0
    /\ pc' = "exit"
    /\ UNCHANGED << argv, ratio, text, locals, open_calls, summarize_calls >>

Next ==
    \/ UsageError
    \/ AcceptArgs
    \/ RatioNotANumber
    \/ RatioOutOfRange
    \/ RatioAccepted
    \/ FileNotFound
    \/ FileReadError
    \/ FileRead
    \/ CallSummarize
    \/ EmptyInput
    \/ Step1Preprocess
    \/ Step2Frequencies
    \/ NoScorableContent
    \/ Step3Score
    \/ Step4Count
    \/ Step5Select
    \/ Step6Build
    \/ Report

Spec == Init /\ [][Next]_vars

\* ----------------------------------------------------------------- helpers

\* summarize_text has just returned to main.
Returned == pc = "report"

\* ... with a summary built by step 6 (both guards were passed).
ReturnedSummary == Returned /\ Len(text) # 0 /\ DOMAIN word_frequencies # {}

\* One of the two guards of summarize_text returned an error message.
ErrorReturned == Len(text) = 0 \/ DOMAIN word_frequencies = {}

\* main got summarize_text's result (the run did not end before the call).
Reported == summarize_calls = 1

\* top_indices holds the selection of step 5.
Selected == pc = "step6" \/ ReturnedSummary

\* The text has a word token that is not a stop word.
HasNonStopWord(t) ==
    LET tokens == FindWords(Lower(t))
    IN  \E k \in 1..Len(tokens) : tokens[k] \notin STOP_WORDS

AsSet(xs) == {xs[k] : k \in 1..Len(xs)}

\* The score the map holds for the key i.
ScoreOf(i) ==
    sentence_scores[CHOOSE k \in 1..Len(sentence_scores) :
                      sentence_scores[k][1] = i][2]

\* The word tokens of each sentence from the i-th on, as a sequence.
RECURSIVE TokensFrom(_, _)
TokensFrom(sents, i) ==
    IF i > Len(sents) THEN << >>
    ELSE << FindWords(Lower(sents[i])) >> \o TokensFrom(sents, i + 1)

\* Sum of freq[w] over the occurrences of the tokens that are keys of freq.
RECURSIVE SumFreq(_, _)
SumFreq(tokens, freq) ==
    IF Len(tokens) = 0 THEN 0
    ELSE (IF Head(tokens) \in DOMAIN freq THEN freq[Head(tokens)] ELSE 0)
           + SumFreq(Tail(tokens), freq)

\* Number of occurrences of the token w among the tokens.
Occurrences(w, tokens) ==
    Cardinality({k \in 1..Len(tokens) : tokens[k] = w})

RatioLeq(a, b) == a.num * b.den <= b.num * a.den

One == [nan |-> FALSE, num |-> 1, den |-> 1]

\* Ratios in (0, 1] a selection is compared across.
ComparedRatios ==
    { [nan |-> FALSE, num |-> 1, den |-> 100], [nan |-> FALSE, num |-> 1, den |-> 5],
      [nan |-> FALSE, num |-> 1, den |-> 4],   [nan |-> FALSE, num |-> 1, den |-> 3],
      [nan |-> FALSE, num |-> 17, den |-> 50], [nan |-> FALSE, num |-> 1, den |-> 2],
      [nan |-> FALSE, num |-> 2, den |-> 3],   [nan |-> FALSE, num |-> 67, den |-> 100],
      [nan |-> FALSE, num |-> 3, den |-> 4],   One }

\* "Dogs bark loudly."
CatsAndDogsSummary ==
    << "D", "o", "g", "s", " ", "b", "a", "r", "k", " ", "l", "o", "u", "d", "l", "y",
       "." >>

\* ------------------------------------------------------------------ claims

\* C1: for a non-empty text with at least one non-stop word and a ratio in
\* (0, 1], summarize_text returns a non-empty string that is the single-space
\* join of the sentences of preprocess_text at strictly ascending indices
\* (original order, none repeated, each verbatim); the selection steps are
\* never reached with an empty score map.
C1_SummaryIsSubsequence ==
    LET sents == SplitSentences(Strip(text))
    IN  /\ pc \in {"step4", "step5", "step6"} => Len(sentence_scores) > 0
        /\ (Returned /\ Len(text) # 0 /\ HasNonStopWord(text)) =>
             /\ ~ratio.nan /\ 0 < ratio.num /\ ratio.num <= ratio.den
             /\ Len(summary) > 0
             /\ Len(top_indices) > 0
             /\ \A k \in 1..Len(top_indices) :
                  top_indices[k] \in 0..(Len(sents) - 1)
             /\ \A k \in 1..(Len(top_indices) - 1) :
                  top_indices[k] < top_indices[k + 1]
             /\ summary = Join([k \in 1..Len(top_indices) |->
                                  sents[top_indices[k] + 1]])

\* C1 witness: a summary of at least two sentences that skips a sentence has
\* been returned.
C1_Witness ==
    /\ Returned /\ Len(text) # 0 /\ HasNonStopWord(text)
    /\ Len(top_indices) >= 2
    /\ Len(top_indices) < Len(sentences)
    /\ \E k \in 1..(Len(top_indices) - 1) : top_indices[k] + 1 < top_indices[k + 1]

\* C2: the number of selected sentences is min(max(1, floor(N * ratio)), S)
\* for N sentences of which S have a score entry; every selected sentence has
\* a score entry; ratio 1.0 selects exactly the scored sentences; with N = 1
\* the one sentence is selected whatever the ratio.
C2_SelectedCount ==
    Selected =>
      LET N == Len(SplitSentences(Strip(text)))
          S == Len(sentence_scores)
          floor == (N * ratio.num) \div ratio.den
          desired == IF floor >= 1 THEN floor ELSE 1
      IN  /\ Len(top_indices) = IF desired <= S THEN desired ELSE S
          /\ AsSet(top_indices) \subseteq Keys(sentence_scores)
          /\ ratio.num = ratio.den => AsSet(top_indices) = Keys(sentence_scores)
          /\ N = 1 => top_indices = << 0 >>

\* C2 witness: more sentences were asked for than are scored, and all the
\* scored ones (at least two, fewer than all) were selected.
C2_Witness ==
    /\ pc = "step6"
    /\ summary_sentences_count > Len(sentence_scores)
    /\ Len(top_indices) = Len(sentence_scores)
    /\ Len(top_indices) >= 2
    /\ Len(top_indices) < Len(sentences)

\* C3: ties are broken by the lowest sentence index: no selected sentence j
\* is selected while an unselected scored sentence has a strictly higher score,
\* or the same score and a lower index; for the cats-and-dogs text with a
\* desired count of 1 the summary is "Dogs bark loudly.".
C3_TieBreakLowestIndex ==
    Selected =>
      /\ \A j \in AsSet(top_indices) :
           \A i \in Keys(sentence_scores) \ AsSet(top_indices) :
              \/ ScoreOf(i) < ScoreOf(j)
              \/ ScoreOf(i) = ScoreOf(j) /\ i > j
      /\ (Returned /\ text = CatsAndDogsText /\ summary_sentences_count = 1)
            => summary = CatsAndDogsSummary

\* C3 witness: a tie was split: of two sentences with the same score one is
\* among the two or more selected and the other is not.
C3_Witness ==
    /\ Selected
    /\ Len(top_indices) >= 2
    /\ \E j \in AsSet(top_indices) :
         \E i \in Keys(sentence_scores) \ AsSet(top_indices) :
            ScoreOf(i) = ScoreOf(j)

\* C4: for a fixed text and ratios r1 <= r2 in (0, 1], the selection at r1 has
\* at most as many sentences as the selection at r2 and is a subset of it
\* (checked between the ratio of the run and every compared ratio).
C4_MonotoneInRatio ==
    pc = "step6" =>
      \A r \in ComparedRatios :
         LET other == SelectedIndices(text, r)
         IN  /\ RatioLeq(r, ratio) =>
                  /\ Len(other) <= Len(top_indices)
                  /\ AsSet(other) \subseteq AsSet(top_indices)
             /\ RatioLeq(ratio, r) =>
                  /\ Len(top_indices) <= Len(other)
                  /\ AsSet(top_indices) \subseteq AsSet(other)

\* C4 witness: a larger ratio selects strictly more sentences than the ratio
\* of the run, which selected at least two.
C4_Witness ==
    /\ pc = "step6"
    /\ Len(top_indices) >= 2
    /\ \E r \in ComparedRatios :
         /\ RatioLeq(ratio, r)
         /\ Len(SelectedIndices(text, r)) > Len(top_indices)

\* C5: when summarize_text returned a summary s, summarize_text(s, 1.0) is s:
\* s splits into exactly the selected sentences, each is scored again, and all
\* are selected in the same order.
C5_IdempotentAtRatioOne ==
    ReturnedSummary =>
      LET again == preprocess_text(summary)
      IN  /\ again.sentences =
               [k \in 1..Len(top_indices) |-> sentences[top_indices[k] + 1]]
          /\ Len(score_sentences(again.sentences,
                                 calculate_word_frequencies(again.words)))
               = Len(again.sentences)
          /\ SelectedIndices(summary, One) =
               [k \in 1..Len(again.sentences) |-> k - 1]
          /\ summarize_text(summary, One) = summary

\* C5 witness: a summary of at least two sentences, shorter than the text,
\* has been returned.
C5_Witness ==
    /\ ReturnedSummary
    /\ Len(top_indices) >= 2
    /\ Len(top_indices) < Len(sentences)
    /\ summary # text

\* C6: summarize_text returns the EmptyInput message exactly when the text is
\* empty, and the different NoScorableContent message for every non-empty text
\* without a non-stop word token; in neither case an empty string or a
\* selection of sentences.
C6_DistinctErrorOutcomes ==
    Returned =>
      /\ summary = EmptyInputMessage <=> Len(text) = 0
      /\ (Len(text) # 0 /\ ~HasNonStopWord(text)) =>
            /\ summary = NoScorableContentMessage
            /\ top_indices = << >>
      /\ EmptyInputMessage # NoScorableContentMessage
      /\ (Len(text) = 0 \/ ~HasNonStopWord(text)) => Len(summary) # 0

\* The half of C6 the code keeps: an empty text gives the EmptyInput message,
\* a non-empty text without a non-stop word the NoScorableContent message.
ErrorMessagesWhenDue ==
    Returned =>
      /\ Len(text) = 0 => summary = EmptyInputMessage
      /\ (Len(text) # 0 /\ ~HasNonStopWord(text)) =>
            summary = NoScorableContentMessage /\ top_indices = << >>
      /\ EmptyInputMessage # NoScorableContentMessage

\* C7 as stated: when summarize_text reports EmptyInput or NoScorableContent,
\* the run ends at the error message and prints no summarization report.
C7_ErrorEndsRunEarly ==
    (pc = "exit" /\ Reported /\ ErrorReturned) =>
      \A k \in 1..Len(stdout) :
         stdout[k][1] \notin {"ReportTitle", "OriginalSentenceCount",
                              "SummarySentenceCount", "SummarySentenceCountNA",
                              "GeneratedSummaryHeader", "Summary"}

\* C7 amended: when summarize_text reports EmptyInput or NoScorableContent,
\* main does not stop early: it prints the whole report, with the summary
\* sentence count shown as N/A and the error message as the summary section,
\* and the process ends with exit status 0.
C7_ErrorIsPrintedInsideReport ==
    (pc = "exit" /\ Reported /\ ErrorReturned) =>
      /\ exit_status = 0
      /\ summary \in {EmptyInputMessage, NoScorableContentMessage}
      /\ Len(stdout) = 9
      /\ stdout[2][1] = "ReportTitle"
      /\ stdout[4] = << "OriginalSentenceCount", Len(SplitSentences(Strip(text))) >>
      /\ stdout[5][1] = "SummarySentenceCountNA"
      /\ stdout[8][1] = "Summary" /\ stdout[8][2] = summary

\* C7 witness: a run whose text holds only stop words has ended.
C7_Witness ==
    /\ pc = "exit"
    /\ Reported /\ ErrorReturned
    /\ Len(text) # 0
    /\ summary = NoScorableContentMessage

\* The command line has the wrong number of arguments.
BadArgumentCount == Len(argv) < 2 \/ Len(argv) > 3

\* The ratio argument is not a number, or is one outside (0, 1].
BadRatio ==
    /\ Len(argv) = 3
    /\ LET r == ParseFloat(argv[3])
       IN  ~r.ok \/ r.nan \/ r.num <= 0 \/ r.num > r.den

Diagnostics == {"Usage", "RatioNotANumber", "RatioOutOfRange", "FileNotFound",
                "FileReadError"}

\* C8: summarize_text is invoked at most once, and only after the argument
\* count was accepted, the ratio (when given) was parsed and found in (0, 1],
\* and the file was read; a wrong argument count, a bad ratio, a missing file
\* or a read error prints one diagnostic and ends the run with a non-zero
\* status, the pipeline never invoked; a bad ratio is rejected before the file
\* is opened.
C8_PipelineOnlyAfterValidation ==
    /\ summarize_calls <= 1
    /\ summarize_calls = 1 =>
         /\ ~BadArgumentCount /\ ~BadRatio
         /\ ~ratio.nan /\ 0 < ratio.num /\ ratio.num <= ratio.den
         /\ open_calls = 1
         /\ \A k \in 1..Len(stdout) : stdout[k][1] \notin Diagnostics
    /\ (BadArgumentCount \/ BadRatio) =>
         /\ open_calls = 0 /\ summarize_calls = 0
         /\ pc = "exit" =>
              /\ exit_status = 1
              /\ Len(stdout) = 1
              /\ stdout[1][1] = (IF BadArgumentCount THEN "Usage"
                                 ELSE IF ~ParseFloat(argv[3]).ok
                                   THEN "RatioNotANumber" ELSE "RatioOutOfRange")
    /\ (\E k \in 1..Len(stdout) : stdout[k][1] \in {"FileNotFound", "FileReadError"}) =>
         /\ pc = "exit" /\ exit_status = 1
         /\ Len(stdout) = 1
         /\ summarize_calls = 0 /\ open_calls = 1
    /\ (pc = "exit" /\ summarize_calls = 0) => exit_status = 1

\* C8 witness: a run with a ratio argument has called the pipeline and ended.
C8_Witness ==
    /\ pc = "exit"
    /\ Len(argv) = 3
    /\ summarize_calls = 1
    /\ exit_status = 0

\* C9: the score map is sparse: index i is a key exactly when sentence i has a
\* token that is a key of the frequency map; its value is the sum of freq[w]
\* over every occurrence of such a token, hence at least 1; a sentence of stop
\* words only is absent; keys are inserted in ascending index order.
C9_SparseScoreMap ==
    (pc = "step4" \/ ReturnedSummary) =>
      LET tokens == TokensFrom(sentences, 1)
      IN  /\ \A i \in 0..(Len(sentences) - 1) :
               /\ i \in Keys(sentence_scores) <=>
                    \E k \in 1..Len(tokens[i + 1]) :
                       tokens[i + 1][k] \in DOMAIN word_frequencies
               /\ (\A k \in 1..Len(tokens[i + 1]) : tokens[i + 1][k] \in STOP_WORDS)
                    => i \notin Keys(sentence_scores)
          /\ \A k \in 1..Len(sentence_scores) :
               /\ sentence_scores[k][1] \in 0..(Len(sentences) - 1)
               /\ sentence_scores[k][2] =
                    SumFreq(tokens[sentence_scores[k][1] + 1], word_frequencies)
               /\ sentence_scores[k][2] >= 1
          /\ \A k \in 1..(Len(sentence_scores) - 1) :
               sentence_scores[k][1] < sentence_scores[k + 1][1]

\* C9 witness: the scores are computed, a sentence of stop words only is
\* absent, and a sentence scores more than its number of tokens.
C9_Witness ==
    /\ pc = "step4"
    /\ LET tokens == TokensFrom(sentences, 1)
       IN  /\ \E i \in 0..(Len(sentences) - 1) :
                /\ Len(tokens[i + 1]) > 0
                /\ \A k \in 1..Len(tokens[i + 1]) : tokens[i + 1][k] \in STOP_WORDS
                /\ i \notin Keys(sentence_scores)
           /\ \E k \in 1..Len(sentence_scores) :
                sentence_scores[k][2] > Len(tokens[sentence_scores[k][1] + 1])

\* The frequency map invariant for the map f of the text t.
FrequenciesHold(f, t) ==
    LET tokens == FindWords(Lower(t))
    IN  \A w \in DOMAIN f :
           /\ w \notin STOP_WORDS
           /\ f[w] >= 1
           /\ f[w] = Occurrences(w, tokens)

\* C10: from the return of calculate_word_frequencies until summarize_text
\* returns (and after), every key of the frequency map is a word token outside
\* the stop-word set, every count is the positive number of occurrences of the
\* token in the lower-cased text, and no later step adds, removes or changes a
\* key.
C10_FrequencyMapInvariant ==
    [][ /\ (\/ pc' \in {"step3", "step4", "step5", "step6"}
            \/ pc' \in {"report", "exit"} /\ summarize_calls' = 1 /\ Len(text') # 0)
          => FrequenciesHold(word_frequencies', text')
        /\ pc \in {"step3", "step4", "step5", "step6", "report"}
          => word_frequencies' = word_frequencies ]_vars

\* C10 witness: the map is built and scored against, a token occurs twice,
\* and the text has a stop word that is no key.
C10_Witness ==
    /\ pc = "step4"
    /\ \E w \in DOMAIN word_frequencies : word_frequencies[w] >= 2
    /\ \E k \in 1..Len(words) :
         words[k] \in STOP_WORDS /\ words[k] \notin DOMAIN word_frequencies

====
